---- MODULE Spec2Model ----
(***************************************************************************)
(* Field / ScalarField / VectorField, the particles of VectorFieldAnim and *)
(* the events of the VectorFieldAnim layer of leaflet-canvaslayer-field    *)
(* (src/dist/leaflet-canvaslayer-field.js) as state machines: Spec for the *)
(* Field's operations, AnimSpec for the ticks of one animation timer,      *)
(* LayerSpec for the layer's events and timers.                            *)
(*                                                                         *)
(* Representation of JavaScript values:                                    *)
(*   - a Number is an exact rational <<"num", n, d>> in lowest terms       *)
(*     (d >= 1); the grid inputs are chosen so that every intermediate     *)
(*     result is a dyadic rational or small integer, which IEEE doubles    *)
(*     hold exactly; the angles of Vector are rounded (see RoundFloat);    *)
(*   - null is <<"null">>, undefined is <<"undefined">>;                   *)
(*   - a Vector is <<"vec", u, v>> with u and v Numbers;                   *)
(*   - a boolean result is <<"bool", b>>;                                  *)
(*   - a thrown TypeError is the outcome <<"TypeError">>.                  *)
(* Longitudes and latitudes are integers counting half degrees (Deg        *)
(* converts), and so are the cell sizes.  JavaScript arrays are 0-based,   *)
(* TLA+ sequences 1-based: At does the shift.                              *)
(***************************************************************************)
EXTENDS Integers, Sequences, FiniteSets, TLC

VARIABLES
    field,     \* the Field object (this): attributes, grid, filter, mask, range
    pc,        \* "idle": the caller may call; "returned": a call has returned
    op,        \* name of the last operation called
    args,      \* its arguments
    result,    \* what it returned (or the error it threw)
    indexes,   \* the grid indexes the last lookup used
    paths,     \* VectorFieldAnim: the particles of onDrawLayer (closure paths)
    moved,     \* the particles as the last tick's _moveParticles left them
    viewBounds, \* viewInfo.bounds of onDrawLayer, <<west, south, east, north>>
    thrown,    \* whether the last tick ended with an exception
    segments,  \* what the last tick's _drawParticles stroked, by particle
    _map,      \* the layer: whether it is on the map (this._map is set)
    _canvas,   \* "none", or the style.visibility of its canvas
    _frame,    \* whether this._frame holds a requested animation frame
    queued,    \* number of requested drawLayer callbacks the browser holds
    _visible,  \* this._visible
    timer,     \* this.timer: 0 for null, or the number of the last d3 timer
    running,   \* the d3 timers that were started and not stopped
    closures   \* by timer: the particles its callback works on

animVars == <<paths, moved, viewBounds, thrown, segments>>

layerVars == <<_map, _canvas, _frame, queued, _visible, timer, running, closures>>

vars == <<field, pc, op, args, result, indexes, paths, moved, viewBounds, thrown,
          segments, _map, _canvas, _frame, queued, _visible, timer, running,
          closures>>

(***************************** JavaScript values ***************************)

Null == <<"null">>
Undefined == <<"undefined">>
TypeError == <<"TypeError">>
Bool(b) == <<"bool", b>>

Abs(n) == IF n < 0 THEN -n ELSE n

RECURSIVE GCD(_, _)
GCD(a, b) == IF b = 0 THEN a ELSE GCD(b, a % b)

\* the Number n/d, d > 0, in lowest terms
Frac(n, d) == LET g == GCD(Abs(n), d) IN <<"num", n \div g, d \div g>>
Num(n) == <<"num", n, 1>>

IsNum(x) == x[1] = "num"
NumAdd(a, b) == Frac(a[2] * b[3] + b[2] * a[3], a[3] * b[3])
NumSub(a, b) == Frac(a[2] * b[3] - b[2] * a[3], a[3] * b[3])
NumMul(a, b) == Frac(a[2] * b[2], a[3] * b[3])
NumLt(a, b) == a[2] * b[3] < b[2] * a[3]
NumLe(a, b) == a[2] * b[3] <= b[2] * a[3]
\* Math.floor
Floor(a) == a[2] \div a[3]
\* Math.sqrt on the perfect squares the model's vectors produce
Sqrt(a) == Num(CHOOSE r \in 0..a[2] : r * r = a[2])

\* 0-based array read: a missing element reads as undefined
At(array, k) == IF k \in 0..(Len(array) - 1) THEN array[k + 1] ELSE Undefined

\* degrees to half-degree units
Deg(d) == 2 * d

(********************************* Vector **********************************)

Vector(u, v) == <<"vec", u, v>>
IsVector(x) == x[1] = "vec"
magnitude(vec) == Sqrt(NumAdd(NumMul(vec[2], vec[2]), NumMul(vec[3], vec[3])))

\* Binary floating point.  The direction computations leave the dyadic
\* rationals, so their results are rounded as IEEE arithmetic rounds them:
\* to the nearest number with MantissaBits significant bits, ties to even.
\* binary64 keeps 53 bits; the model keeps MantissaBits, and its sample
\* vectors are scaled to match (what Vector(-1, 1024) shows here, binary64
\* shows for Vector(-1, 2^52)).
MantissaBits == 10  \* significant bits kept by the model's floating point

RECURSIVE Pow2(_)
Pow2(k) == IF k = 0 THEN 1 ELSE 2 * Pow2(k - 1)

\* a / 2^e
Scaled(a, e) == IF e >= 0 THEN Frac(a[2], a[3] * Pow2(e))
                ELSE Frac(a[2] * Pow2(-e), a[3])

\* the exponent e with 2^(MantissaBits-1) <= a / 2^e < 2^MantissaBits (a > 0)
RECURSIVE FloatExponent(_, _)
FloatExponent(a, e) ==
    LET q == Scaled(a, e)
    IN IF NumLt(q, Num(Pow2(MantissaBits - 1))) THEN FloatExponent(a, e - 1)
       ELSE IF NumLe(Num(Pow2(MantissaBits)), q) THEN FloatExponent(a, e + 1)
       ELSE e

\* the nearest integer to q >= 0, ties to even
RoundHalfEven(q) ==
    LET m == q[2] \div q[3]
        rem == q[2] - m * q[3]
    IN IF 2 * rem < q[3] THEN m
       ELSE IF 2 * rem > q[3] THEN m + 1
       ELSE IF m % 2 = 0 THEN m ELSE m + 1

\* the floating-point number nearest to the Number a
RoundFloat(a) ==
    IF a[2] = 0 THEN a
    ELSE LET pos == Frac(Abs(a[2]), a[3])
             e == FloatExponent(pos, 0)
             m == RoundHalfEven(Scaled(pos, e))
             r == Scaled(Num(m), -e)
         IN IF a[2] < 0 THEN Frac(-r[2], r[3]) ELSE r

\* a % b for a >= 0, b > 0 (exact in floating point)
NumMod(a, b) == NumSub(a, NumMul(b, Num(Floor(Frac(a[2] * b[3], a[3] * b[2])))))

\* Math.atan2(u, v) * (180.0 / Math.PI) in 65536ths of a degree, for the
\* vectors of the model
AngleTable ==
    { <<3, 4, 2416306>>, <<0, 0, 0>>, <<-6, 8, -2416306>>, <<0, -1, 11796480>>,
      <<5, -12, 10314065>>, <<-8, -6, -8314546>>, <<0, 1, 0>>,
      <<1, 1, 2949120>>, <<1, 0, 5898240>>, <<1, -1, 8847360>>,
      <<-1, -1, -8847360>>, <<-1, 0, -5898240>>, <<-1, 1, -2949120>>,
      <<1, 1024, 3667>>, <<-1, 1024, -3667>> }

Atan2Degrees(u, v) ==
    LET row == CHOOSE t \in AngleTable : t[1] = u[2] /\ t[2] = v[2]
    IN RoundFloat(Frac(row[3], 65536))

directionTo(vec) ==
    LET inDegrees == Atan2Degrees(vec[2], vec[3])
    IN IF NumLt(inDegrees, Num(0))
       THEN RoundFloat(NumAdd(inDegrees, Num(360)))
       ELSE inDegrees

directionFrom(vec) ==
    LET a == directionTo(vec)
        opposite == NumMod(RoundFloat(NumAdd(a, Num(180))), Num(360))
    IN opposite

(********************************* Field ***********************************)

_isValid(x) == x # Null /\ x # Undefined

\* Field.constructor: the attributes derived from the descriptor
FieldBase(kind, params) ==
    LET xur == params.xllCorner + params.nCols * params.cellXSize
        yur == params.yllCorner + params.nRows * params.cellYSize
    IN [kind |-> kind,
        nCols |-> params.nCols,
        nRows |-> params.nRows,
        xllCorner |-> params.xllCorner,
        yllCorner |-> params.yllCorner,
        xurCorner |-> xur,
        yurCorner |-> yur,
        cellXSize |-> params.cellXSize,
        cellYSize |-> params.cellYSize,
        isContinuous |-> (xur - params.xllCorner >= Deg(360)),
        longitudeNeedsToBeWrapped |-> (xur > Deg(180)),
        zs |-> <<>>,
        us |-> <<>>,
        vs |-> <<>>,
        grid |-> <<>>,
        _inFilter |-> "null",
        _spatialMask |-> <<>>,
        range |-> <<Undefined, Undefined>>]

(*************************** filters and masks *****************************)

\* The filter functions a caller may pass to setFilter, by name; "null" is no
\* filter.  Each is the JavaScript function in the comment.
ScalarFilters == {"nonNegative", "positive"}
VectorFilters == {"moving", "eastward"}

\* f(value) for the filter function named f: Bool(true/false), or the
\* TypeError the function body throws
CallFilter(f, value) ==
    CASE f = "nonNegative" ->   \* v => v >= 0   (null >= 0 is true in JavaScript)
           Bool(IF value = Null THEN TRUE ELSE NumLe(Num(0), value))
      [] f = "positive" ->      \* v => v > 0    (null > 0 is false)
           Bool(IF value = Null THEN FALSE ELSE NumLt(Num(0), value))
      [] f = "moving" ->        \* v => v.magnitude() > 0   (throws on null)
           IF value = Null THEN TypeError ELSE Bool(NumLt(Num(0), magnitude(value)))
      [] f = "eastward" ->      \* v => v !== null && v.u > 0
           Bool(IF value = Null THEN FALSE ELSE NumLt(Num(0), value[2]))

\* @turf/inside for the rectangular polygons <<x0, y0, x1, y1>> used as masks
\* (points on the boundary count as inside)
inside(lon, lat, poly) ==
    /\ poly[1] <= lon /\ lon <= poly[3]
    /\ poly[2] <= lat /\ lat <= poly[4]

(************************* Field: geometry queries *************************)

numCells(f) == f.nRows * f.nCols

\* mutant: a partial grid that crosses 180 degrees keeps its stored bounds
Mut_getWrappedLongitudes(f) ==
    IF f.longitudeNeedsToBeWrapped /\ f.isContinuous
    THEN <<Deg(-180), Deg(180)>>
    ELSE <<f.xllCorner, f.xurCorner>>

_getWrappedLongitudes(f) ==
    IF f.longitudeNeedsToBeWrapped
    THEN IF f.isContinuous
         THEN <<Deg(-180), Deg(180)>>
         ELSE <<f.xllCorner - Deg(360), f.xurCorner - Deg(360)>>
    ELSE <<f.xllCorner, f.xurCorner>>

extent(f) ==
    LET w == _getWrappedLongitudes(f)
    IN <<w[1], f.yllCorner, w[2], f.yurCorner>>

_pointInExtent(f, lon, lat) ==
    LET w == _getWrappedLongitudes(f)
        longitudeIn == lon >= w[1] /\ lon <= w[2]
        latitudeIn == lat >= f.yllCorner /\ lat <= f.yurCorner
    IN longitudeIn /\ latitudeIn

_pointInMask(f, lon, lat) == inside(lon, lat, f._spatialMask)

contains(f, lon, lat) ==
    IF f._spatialMask # <<>>
    THEN _pointInMask(f, lon, lat)
    ELSE _pointInExtent(f, lon, lat)

notContains(f, lon, lat) == ~contains(f, lon, lat)

\* mutant: the longitude is never shifted by 360
Mut_getDecimalIndexes(f, lon, lat) ==
    <<Frac(lon - f.xllCorner, f.cellXSize), Frac(f.yurCorner - lat, f.cellYSize)>>

\* the decimal indexes <<i, j>>, each a Number
_getDecimalIndexes(f, lon, lat) ==
    LET lon2 == IF f.longitudeNeedsToBeWrapped /\ lon < f.xllCorner
                THEN lon + Deg(360) ELSE lon
    IN <<Frac(lon2 - f.xllCorner, f.cellXSize),
         Frac(f.yurCorner - lat, f.cellYSize)>>

_clampColumnIndex(f, ii) ==
    LET i == IF ii < 0 THEN 0 ELSE ii
        maxCol == f.nCols - 1
    IN IF ii > maxCol THEN maxCol ELSE i

_clampRowIndex(f, jj) ==
    LET j == IF jj < 0 THEN 0 ELSE jj
        maxRow == f.nRows - 1
    IN IF jj > maxRow THEN maxRow ELSE j

_valueAtIndexes(f, i, j) == At(At(f.grid, j), i)

_longitudeAtX(f, i) ==
    LET halfXPixel == f.cellXSize \div 2
        lon == f.xllCorner + halfXPixel + i * f.cellXSize
    IN IF f.longitudeNeedsToBeWrapped /\ lon > Deg(180) THEN lon - Deg(360) ELSE lon

_latitudeAtY(f, j) ==
    LET halfYPixel == f.cellYSize \div 2
    IN f.yurCorner - halfYPixel - j * f.cellYSize

_lonLatAtIndexes(f, i, j) == <<_longitudeAtX(f, i), _latitudeAtY(f, j)>>

\* randomPosition: i and j are what (Math.random() * nCols) | 0 and
\* (Math.random() * nRows) | 0 gave, in 0..nCols-1 and 0..nRows-1; the
\* result is <<o.x, o.y>>
randomPosition(f, i, j) == <<_longitudeAtX(f, i), _latitudeAtY(f, j)>>

(************************* Field: value queries ****************************)

\* _getFourSurroundingIndexes without the wrap of ci on continuous fields
Mut_getFourSurroundingIndexes(f, i, j) ==
    LET fi == Floor(i)
        ci == _clampColumnIndex(f, fi + 1)
        fj == _clampRowIndex(f, Floor(j))
        cj == _clampRowIndex(f, fj + 1)
    IN <<fi, ci, fj, cj>>

\* <<fi, ci, fj, cj>>
_getFourSurroundingIndexes(f, i, j) ==
    LET fi == Floor(i)
        ci0 == fi + 1
        ci1 == IF f.isContinuous /\ ci0 >= f.nCols THEN 0 ELSE ci0
        ci == _clampColumnIndex(f, ci1)
        fj == _clampRowIndex(f, Floor(j))
        cj == _clampRowIndex(f, fj + 1)
    IN <<fi, ci, fj, cj>>

\* <<g00, g10, g01, g11>>, or null when one of them is not available
_getFourSurroundingValues(f, fi, ci, fj, cj) ==
    LET row0 == At(f.grid, fj)
        row1 == At(f.grid, cj)
        g00 == At(row0, fi)
        g10 == At(row0, ci)
        g01 == At(row1, fi)
        g11 == At(row1, ci)
    IN IF row0 # Undefined /\ _isValid(g00) /\ _isValid(g10) /\ row1 # Undefined
          /\ _isValid(g01) /\ _isValid(g11)
       THEN <<g00, g10, g01, g11>>
       ELSE Null

\* ScalarField._doInterpolation with the weights of g10 and g01 exchanged
MutScalarDoInterpolation(x, y, g00, g10, g01, g11) ==
    LET rx == NumSub(Num(1), x)
        ry == NumSub(Num(1), y)
    IN NumAdd(NumAdd(NumAdd(NumMul(NumMul(g00, rx), ry),
                            NumMul(NumMul(g10, rx), y)),
                     NumMul(NumMul(g01, x), ry)),
              NumMul(NumMul(g11, x), y))

\* ScalarField._doInterpolation
ScalarDoInterpolation(x, y, g00, g10, g01, g11) ==
    LET rx == NumSub(Num(1), x)
        ry == NumSub(Num(1), y)
    IN NumAdd(NumAdd(NumAdd(NumMul(NumMul(g00, rx), ry),
                            NumMul(NumMul(g10, x), ry)),
                     NumMul(NumMul(g01, rx), y)),
              NumMul(NumMul(g11, x), y))

\* VectorField._doInterpolation
VectorDoInterpolation(x, y, g00, g10, g01, g11) ==
    LET rx == NumSub(Num(1), x)
        ry == NumSub(Num(1), y)
        a == NumMul(rx, ry)
        b == NumMul(x, ry)
        c == NumMul(rx, y)
        d == NumMul(x, y)
        u == NumAdd(NumAdd(NumAdd(NumMul(g00[2], a), NumMul(g10[2], b)),
                           NumMul(g01[2], c)), NumMul(g11[2], d))
        v == NumAdd(NumAdd(NumAdd(NumMul(g00[3], a), NumMul(g10[3], b)),
                           NumMul(g01[3], c)), NumMul(g11[3], d))
    IN Vector(u, v)

\* the subclass's override of Field._doInterpolation
_doInterpolation(f, x, y, g00, g10, g01, g11) ==
    IF f.kind = "ScalarField"
    THEN ScalarDoInterpolation(x, y, g00, g10, g01, g11)
    ELSE VectorDoInterpolation(x, y, g00, g10, g01, g11)

\* interpolatedValueAtIndexes with the filter applied to the upper left value
MutInterpolatedValueAtIndexes(f, i, j) ==
    LET ix == _getFourSurroundingIndexes(f, i, j)
        values == _getFourSurroundingValues(f, ix[1], ix[2], ix[3], ix[4])
    IN IF values # Null
          /\ (f._inFilter = "null" \/ CallFilter(f._inFilter, values[1]) = Bool(TRUE))
       THEN _doInterpolation(f, NumSub(i, Num(ix[1])), NumSub(j, Num(ix[3])),
                             values[1], values[2], values[3], values[4])
       ELSE Null

interpolatedValueAtIndexes(f, i, j) ==
    LET ix == _getFourSurroundingIndexes(f, i, j)
        values == _getFourSurroundingValues(f, ix[1], ix[2], ix[3], ix[4])
    IN IF values # Null
       THEN _doInterpolation(f, NumSub(i, Num(ix[1])), NumSub(j, Num(ix[3])),
                             values[1], values[2], values[3], values[4])
       ELSE Null

interpolatedValueAt(f, lon, lat) ==
    IF notContains(f, lon, lat)
    THEN Null
    ELSE LET ij == _getDecimalIndexes(f, lon, lat)
         IN interpolatedValueAtIndexes(f, ij[1], ij[2])

\* the <<column, row>> valueAt reads
NearestIndexes(f, lon, lat) ==
    LET ij == _getDecimalIndexes(f, lon, lat)
        ii == Floor(ij[1])
        jj == Floor(ij[2])
    IN <<_clampColumnIndex(f, ii), _clampRowIndex(f, jj)>>

valueAt(f, lon, lat) ==
    IF notContains(f, lon, lat)
    THEN Null
    ELSE LET cij == NearestIndexes(f, lon, lat)
             value == _valueAtIndexes(f, cij[1], cij[2])
             passes == CallFilter(f._inFilter, value)
         IN IF f._inFilter # "null"
            THEN IF passes = TypeError THEN TypeError
                 ELSE IF passes = Bool(FALSE) THEN Null ELSE value
            ELSE value

\* mutant: only the filter decides, the value is not tested against null
MutHasValueAt(f, lon, lat) ==
    LET value == valueAt(f, lon, lat)
        included == IF f._inFilter # "null"
                    THEN CallFilter(f._inFilter, value)
                    ELSE Bool(TRUE)
    IN IF value = TypeError \/ included = TypeError
       THEN TypeError
       ELSE Bool(included = Bool(TRUE))

hasValueAt(f, lon, lat) ==
    LET value == valueAt(f, lon, lat)
        hasValue == value # Null
        included == IF f._inFilter # "null"
                    THEN CallFilter(f._inFilter, value)
                    ELSE Bool(TRUE)
    IN IF value = TypeError \/ included = TypeError
       THEN TypeError
       ELSE Bool(hasValue /\ included = Bool(TRUE))

notHasValueAt(f, lon, lat) ==
    LET has == hasValueAt(f, lon, lat)
    IN IF has = TypeError THEN TypeError ELSE Bool(has = Bool(FALSE))

(******************************** Cell *************************************)

\* new Cell(L.latLng(lat, lon), value, xSize, ySize)
Cell(center, value, xSize, ySize) ==
    [center |-> center, value |-> value, xSize |-> xSize, ySize |-> ySize]

\* the cells of rows 0, stride, 2*stride, ... and columns 0, stride, ...,
\* rows outer, columns inner (stride >= 1)
getCells(f, stride) ==
    LET nr == (f.nRows + stride - 1) \div stride
        nc == (f.nCols + stride - 1) \div stride
    IN [k \in 1..(nr * nc) |->
          LET j == ((k - 1) \div nc) * stride
              i == ((k - 1) % nc) * stride
              lonLat == _lonLatAtIndexes(f, i, j)
          IN Cell(<<lonLat[2], lonLat[1]>>, _valueAtIndexes(f, i, j),
                  f.cellXSize, f.cellYSize)]

\* the loops of getCells advance by stride: with stride <= 0 the row index
\* never reaches nRows and the call does not return
getCellsReturns(f, stride) == stride > 0 \/ f.nRows <= 0

(************************ construction and range ***************************)

\* d3.min / d3.max: null and undefined entries are skipped; undefined when
\* nothing is left
d3min(data) ==
    LET valid == {k \in 1..Len(data) : _isValid(data[k])}
    IN IF valid = {} THEN Undefined
       ELSE data[CHOOSE m \in valid : \A k \in valid : NumLe(data[m], data[k])]

d3max(data) ==
    LET valid == {k \in 1..Len(data) : _isValid(data[k])}
    IN IF valid = {} THEN Undefined
       ELSE data[CHOOSE m \in valid : \A k \in valid : NumLe(data[k], data[m])]

\* Array.prototype.filter with the filter function named fn
ArrayFilter(data, fn) == SelectSeq(data, LAMBDA z : CallFilter(fn, z) = Bool(TRUE))

\* Array.prototype.map(v => v.magnitude())
MapMagnitude(vectors) == [k \in 1..Len(vectors) |-> magnitude(vectors[k])]

\* _arrayTo2d testing the truthiness of z in place of _isValid(z)
MutScalarArrayTo2d(array, nRows, nCols) ==
    [j \in 1..nRows |->
       [i \in 1..nCols |->
          LET z == At(array, (j - 1) * nCols + (i - 1))
          IN IF _isValid(z) /\ z # Num(0) THEN z ELSE Null]]

ScalarArrayTo2d(array, nRows, nCols) ==
    [j \in 1..nRows |->
       [i \in 1..nCols |->
          LET z == At(array, (j - 1) * nCols + (i - 1))
          IN IF _isValid(z) THEN z ELSE Null]]

VectorArraysTo2d(us, vs, nRows, nCols) ==
    [j \in 1..nRows |->
       [i \in 1..nCols |->
          LET u == At(us, (j - 1) * nCols + (i - 1))
              v == At(vs, (j - 1) * nCols + (i - 1))
              valid == _isValid(u) /\ _isValid(v)
          IN IF valid THEN Vector(u, v) ELSE Null]]

_buildGrid(f) ==
    IF f.kind = "ScalarField"
    THEN ScalarArrayTo2d(f.zs, f.nRows, f.nCols)
    ELSE VectorArraysTo2d(f.us, f.vs, f.nRows, f.nCols)

ScalarCalculateRange(f) ==
    LET data == IF f._inFilter # "null" THEN ArrayFilter(f.zs, f._inFilter) ELSE f.zs
    IN <<d3min(data), d3max(data)>>

VectorCalculateRange(f) ==
    LET cells == getCells(f, 1)
        values == [k \in 1..Len(cells) |-> cells[k].value]
        notNull == SelectSeq(values, LAMBDA v : v # Null)
        vectors == IF f._inFilter # "null"
                   THEN ArrayFilter(notNull, f._inFilter) ELSE notNull
        magnitudes == MapMagnitude(vectors)
    IN <<d3min(magnitudes), d3max(magnitudes)>>

_calculateRange(f) ==
    IF f.kind = "ScalarField" THEN ScalarCalculateRange(f) ELSE VectorCalculateRange(f)

_updateRange(f) == [f EXCEPT !.range = _calculateRange(f)]

\* new ScalarField(params)
NewScalarField(params) ==
    LET f0 == [FieldBase("ScalarField", params) EXCEPT !.zs = params.zs]
        f1 == [f0 EXCEPT !.grid = _buildGrid(f0)]
    IN _updateRange(f1)

\* new VectorField(params)
NewVectorField(params) ==
    LET f0 == [FieldBase("VectorField", params) EXCEPT !.us = params.us,
                                                       !.vs = params.vs]
        f1 == [f0 EXCEPT !.grid = _buildGrid(f0)]
    IN [f1 EXCEPT !.range = _calculateRange(f1)]

\* mutant: the range is not recomputed
MutSetFilter(f, fn) == [f EXCEPT !._inFilter = fn]

setFilter(f, fn) == _updateRange([f EXCEPT !._inFilter = fn])

\* mutant: the filter is dropped when the mask is set
MutSetSpatialMask(f, m) == [f EXCEPT !._spatialMask = m, !._inFilter = "null"]

setSpatialMask(f, m) == [f EXCEPT !._spatialMask = m]

(************************ VectorField.getScalarField ***********************)

ScalarFieldTypes == {"magnitude", "directionTo", "directionFrom"}

\* the function of (u, v) that _getFunctionFor(type) returns, applied
_getFunctionFor(type, u, v) ==
    LET uv == Vector(u, v)
    IN CASE type = "magnitude" -> magnitude(uv)
         [] type = "directionTo" -> directionTo(uv)
         [] type = "directionFrom" -> directionFrom(uv)

\* mutant: a cell is taken as valid when its u alone is
Mut_applyOnField(f, type) ==
    [p \in 1..numCells(f) |->
       LET u == At(f.us, p - 1)
           v == At(f.vs, p - 1)
       IN IF _isValid(u) /\ _isValid(v) THEN _getFunctionFor(type, u, v)
          ELSE IF _isValid(u) THEN Num(0)
          ELSE Null]

_applyOnField(f, type) ==
    [p \in 1..numCells(f) |->
       LET u == At(f.us, p - 1)
           v == At(f.vs, p - 1)
       IN IF _isValid(u) /\ _isValid(v) THEN _getFunctionFor(type, u, v)
          ELSE Null]

getScalarField(f, type) ==
    LET p == [nCols |-> f.nCols, nRows |-> f.nRows,
              xllCorner |-> f.xllCorner, yllCorner |-> f.yllCorner,
              cellXSize |-> f.cellXSize, cellYSize |-> f.cellYSize,
              zs |-> _applyOnField(f, type)]
    IN NewScalarField(p)

(************************** inputs of the model ****************************)

MaxFirst == 1       \* scalar source arrays start at -1..MaxFirst
MaxStart == 1       \* vector source arrays start at palette entry 0..MaxStart
MaxExtra == 1       \* source arrays are up to MaxExtra longer or shorter than the grid
Margin == 1         \* sample points reach Margin half cells beyond the grid
MaxStride == 2      \* getCells is called with strides 0..MaxStride
MaxTimers == 2      \* d3 timers a layer starts
MaxQueued == 2      \* animation frame callbacks the browser holds at a time
maxAge == 2         \* options.maxAge: ticks a particle lives

\* grid geometries: the 2x2 unit grid at the origin; a global grid [0, 360);
\* a partial grid that crosses 180 degrees
Geometries ==
    { [nCols |-> 2, nRows |-> 2, xllCorner |-> 0, yllCorner |-> 0,
       cellXSize |-> Deg(1), cellYSize |-> Deg(1)],
      [nCols |-> 4, nRows |-> 1, xllCorner |-> 0, yllCorner |-> Deg(-45),
       cellXSize |-> Deg(90), cellYSize |-> Deg(90)],
      [nCols |-> 3, nRows |-> 1, xllCorner |-> Deg(90), yllCorner |-> 0,
       cellXSize |-> Deg(40), cellYSize |-> Deg(40)] }

Params(g, zs, us, vs) ==
    [nCols |-> g.nCols, nRows |-> g.nRows,
     xllCorner |-> g.xllCorner, yllCorner |-> g.yllCorner,
     cellXSize |-> g.cellXSize, cellYSize |-> g.cellYSize,
     zs |-> zs, us |-> us, vs |-> vs]

\* first, first + step, first + 2*step, ...
Ramp(first, step, len) == [p \in 1..len |-> Num(first + step * (p - 1))]

\* the (u, v) pairs vector arrays are drawn from: their magnitudes are 5, 0,
\* 10, 1, 13, 10
Palette == << <<3, 4>>, <<0, 0>>, <<-6, 8>>, <<0, -1>>, <<5, -12>>, <<-8, -6>> >>

PaletteU(start, len) ==
    [p \in 1..len |-> Num(Palette[((start + p - 1) % Len(Palette)) + 1][1])]

PaletteV(start, len) ==
    [p \in 1..len |-> Num(Palette[((start + p - 1) % Len(Palette)) + 1][2])]

\* array with null at the positions of holes
WithHoles(array, holes) ==
    [p \in 1..Len(array) |-> IF p \in holes THEN Null ELSE array[p]]

HolePatterns(len) == {{}, {1}, {len}, 1..len}

\* array lengths other than n, up to MaxExtra away from it
OtherLengths(n) == {len \in 1..(n + MaxExtra) : len >= n - MaxExtra /\ len # n}

\* source arrays for a grid of n cells: of length n with nulls in them, or of
\* another length
ScalarArrays(n) ==
    UNION { { WithHoles(Ramp(first, step, n), holes) : holes \in HolePatterns(n) }
            \cup { Ramp(first, step, len) : len \in OtherLengths(n) } :
            <<first, step>> \in ((-1)..MaxFirst) \X {-1, 1} }

ScalarParams ==
    UNION { { Params(g, zs, <<>>, <<>>) : zs \in ScalarArrays(g.nRows * g.nCols) } :
            g \in Geometries }

\* the <<us, vs>> pairs for a grid of n cells: both of length n with nulls in
\* them, or us of another length and vs as long as us or as the grid
VectorArrays(n) ==
    UNION { { <<WithHoles(PaletteU(start, n), holesU),
                WithHoles(PaletteV(start, n), holesV)>> :
                holesU \in HolePatterns(n), holesV \in {{}, {n}} }
            \cup { <<PaletteU(start, len), PaletteV(start, len)>> :
                     len \in OtherLengths(n) }
            \cup { <<PaletteU(start, len), PaletteV(start, n)>> :
                     len \in OtherLengths(n) } :
            start \in 0..MaxStart }

VectorParams ==
    UNION { { Params(g, <<>>, uv[1], uv[2]) : uv \in VectorArrays(g.nRows * g.nCols) } :
            g \in Geometries }

\* the filter functions that apply to the field's values
Filters(f) == IF f.kind = "ScalarField" THEN ScalarFilters ELSE VectorFilters

\* mask polygons: one that covers the grid's first cell, one that extends a
\* cell beyond the grid on every side
Masks(f) ==
    LET e == extent(f)
    IN { <<e[1], e[4] - f.cellYSize, e[1] + f.cellXSize, e[4]>>,
         <<e[1] - f.cellXSize, e[2] - f.cellYSize,
           e[3] + f.cellXSize, e[4] + f.cellYSize>> }

\* longitudes at every half cell, from Margin half cells west of the grid to
\* Margin east of it, in stored and in wrapped ([-180, 180]) form
SampleLons(f) ==
    LET half == f.cellXSize \div 2
        stored == {f.xllCorner + k * half : k \in (-Margin)..(2 * f.nCols + Margin)}
    IN IF f.longitudeNeedsToBeWrapped
       THEN stored \cup {x - Deg(360) : x \in stored}
       ELSE stored

SampleLats(f) ==
    LET half == f.cellYSize \div 2
    IN {f.yurCorner - k * half : k \in (-Margin)..(2 * f.nRows + Margin)}

\* strides passed to getCells
Strides == 0..MaxStride

\* the (u, v) of the Vectors whose direction is asked for
SampleVectors == {<<t[1], t[2]>> : t \in AngleTable}

\* decimal indexes at every half index
SampleIs(f) == {Frac(k, 2) : k \in (-(Margin + 1))..(2 * f.nCols + Margin)}
SampleJs(f) == {Frac(k, 2) : k \in (-(Margin + 1))..(2 * f.nRows + Margin)}

(***************************** state machine *******************************)

\* the layer's own state after initialize: not on a map, nothing requested,
\* no timer (the layer's events are the actions of LayerSpec)
LayerConstructed ==
    /\ _map = FALSE
    /\ _canvas = "none"
    /\ _frame = FALSE
    /\ queued = 0
    /\ _visible = TRUE
    /\ timer = 0
    /\ running = {}
    /\ closures = [t \in 1..MaxTimers |-> <<>>]

Init ==
    /\ field \in {NewScalarField(p) : p \in ScalarParams}
                 \cup {NewVectorField(p) : p \in VectorParams}
    /\ pc = "idle"
    /\ op = "new"
    /\ args = <<>>
    /\ result = Undefined
    /\ indexes = <<>>
    /\ paths = <<>>
    /\ moved = <<>>
    /\ viewBounds = <<>>
    /\ thrown = FALSE
    /\ segments = <<>>
    /\ LayerConstructed

Returned(name, as, res, ix) ==
    /\ pc' = "returned"
    /\ op' = name
    /\ args' = as
    /\ result' = res
    /\ indexes' = ix
    /\ UNCHANGED <<animVars, layerVars>>

CallValueAt ==
    /\ pc = "idle"
    /\ \E lon \in SampleLons(field), lat \in SampleLats(field) :
         Returned("valueAt", <<lon, lat>>, valueAt(field, lon, lat),
                  IF notContains(field, lon, lat) THEN <<>>
                  ELSE NearestIndexes(field, lon, lat))
    /\ UNCHANGED field

CallHasValueAt ==
    /\ pc = "idle"
    /\ \E lon \in SampleLons(field), lat \in SampleLats(field) :
         Returned("hasValueAt", <<lon, lat>>, hasValueAt(field, lon, lat), <<>>)
    /\ UNCHANGED field

CallNotHasValueAt ==
    /\ pc = "idle"
    /\ \E lon \in SampleLons(field), lat \in SampleLats(field) :
         Returned("notHasValueAt", <<lon, lat>>, notHasValueAt(field, lon, lat), <<>>)
    /\ UNCHANGED field

CallInterpolatedValueAt ==
    /\ pc = "idle"
    /\ \E lon \in SampleLons(field), lat \in SampleLats(field) :
         Returned("interpolatedValueAt", <<lon, lat>>,
                  interpolatedValueAt(field, lon, lat),
                  IF notContains(field, lon, lat) THEN <<>>
                  ELSE LET ij == _getDecimalIndexes(field, lon, lat)
                       IN _getFourSurroundingIndexes(field, ij[1], ij[2]))
    /\ UNCHANGED field

CallInterpolatedValueAtIndexes ==
    /\ pc = "idle"
    /\ \E i \in SampleIs(field), j \in SampleJs(field) :
         Returned("interpolatedValueAtIndexes", <<i, j>>,
                  interpolatedValueAtIndexes(field, i, j),
                  _getFourSurroundingIndexes(field, i, j))
    /\ UNCHANGED field

CallSetFilter ==
    /\ pc = "idle"
    /\ \E fn \in Filters(field) \cup {"null"} :
         /\ fn # field._inFilter
         /\ field' = setFilter(field, fn)
         /\ Returned("setFilter", <<fn>>, Undefined, <<>>)

CallSetSpatialMask ==
    /\ pc = "idle"
    /\ \E m \in Masks(field) \cup {<<>>} :
         /\ m # field._spatialMask
         /\ field' = setSpatialMask(field, m)
         /\ Returned("setSpatialMask", <<m>>, Undefined, <<>>)

CallNumCells ==
    /\ pc = "idle"
    /\ Returned("numCells", <<>>, Num(numCells(field)), <<>>)
    /\ UNCHANGED field

CallExtent ==
    /\ pc = "idle"
    /\ Returned("extent", <<>>, <<"array">> \o extent(field), <<>>)
    /\ UNCHANGED field

CallContains ==
    /\ pc = "idle"
    /\ \E lon \in SampleLons(field), lat \in SampleLats(field) :
         Returned("contains", <<lon, lat>>, Bool(contains(field, lon, lat)), <<>>)
    /\ UNCHANGED field

\* getCells(stride); a call that does not return leaves the caller in it
CallGetCells ==
    /\ pc = "idle"
    /\ \E stride \in Strides :
         IF getCellsReturns(field, stride)
         THEN Returned("getCells", <<stride>>, <<"array", getCells(field, stride)>>, <<>>)
         ELSE /\ pc' = "looping"
              /\ op' = "getCells"
              /\ args' = <<stride>>
              /\ UNCHANGED <<result, indexes>>
              /\ UNCHANGED <<animVars, layerVars>>
    /\ UNCHANGED field

\* randomPosition(): the result is the object {x, y}
CallRandomPosition ==
    /\ pc = "idle"
    /\ \E i \in 0..(field.nCols - 1), j \in 0..(field.nRows - 1) :
         Returned("randomPosition", <<>>,
                  <<"xy">> \o randomPosition(field, i, j), <<i, j>>)
    /\ UNCHANGED field

\* getScalarField(type) on a VectorField: the result is the new ScalarField
CallGetScalarField ==
    /\ pc = "idle"
    /\ field.kind = "VectorField"
    /\ \E type \in ScalarFieldTypes :
         Returned("getScalarField", <<type>>,
                  <<"ScalarField", getScalarField(field, type)>>, <<>>)
    /\ UNCHANGED field

\* new Vector(u, v).directionTo()
CallDirectionTo ==
    /\ pc = "idle"
    /\ \E uv \in SampleVectors :
         Returned("directionTo", <<Num(uv[1]), Num(uv[2])>>,
                  directionTo(Vector(Num(uv[1]), Num(uv[2]))), <<>>)
    /\ UNCHANGED field

\* new Vector(u, v).directionFrom()
CallDirectionFrom ==
    /\ pc = "idle"
    /\ \E uv \in SampleVectors :
         Returned("directionFrom", <<Num(uv[1]), Num(uv[2])>>,
                  directionFrom(Vector(Num(uv[1]), Num(uv[2]))), <<>>)
    /\ UNCHANGED field

\* the caller takes the result and goes on
Continue ==
    /\ pc = "returned"
    /\ pc' = "idle"
    /\ op' = ""
    /\ args' = <<>>
    /\ result' = Undefined
    /\ indexes' = <<>>
    /\ UNCHANGED field
    /\ UNCHANGED <<animVars, layerVars>>

Next ==
    \/ CallValueAt
    \/ CallHasValueAt
    \/ CallNotHasValueAt
    \/ CallInterpolatedValueAt
    \/ CallInterpolatedValueAtIndexes
    \/ CallSetFilter
    \/ CallSetSpatialMask
    \/ CallNumCells
    \/ CallExtent
    \/ CallContains
    \/ CallGetCells
    \/ CallRandomPosition
    \/ CallGetScalarField
    \/ CallDirectionTo
    \/ CallDirectionFrom
    \/ Continue

Spec == Init /\ [][Next]_vars

(***************************** VectorFieldAnim *****************************)

\* the layer's options (maxAge is among the bounds)
NumPaths == 2       \* options.paths: the number of particles
velocityScale == 1  \* options.velocityScale, in half degrees per unit of u, v

\* a particle of _prepareParticlePaths: {x, y} of randomPosition with an age;
\* xt, yt and m are not set yet.  Coordinates are Numbers of half degrees.
NewParticle(f, i, j, age) ==
    LET o == randomPosition(f, i, j)
    IN [x |-> Num(o[1]), y |-> Num(o[2]), xt |-> Undefined, yt |-> Undefined,
        m |-> Undefined, age |-> age]

\* the values _randomAge can return: Math.floor(Math.random() * maxAge)
RandomAges == 0..(maxAge - 1)

\* the cells the random draws of randomPosition can select
RandomCells(f) == (0..(f.nCols - 1)) \X (0..(f.nRows - 1))

\* the pools _prepareParticlePaths can build
_prepareParticlePaths(f) ==
    [1..NumPaths -> {NewParticle(f, c[1], c[2], age) :
                       c \in RandomCells(f), age \in RandomAges}]

\* viewInfo.bounds.contains(latLng(lat, lon))
boundsContains(b, lon, lat) ==
    /\ b[1] <= lon /\ lon <= b[3]
    /\ b[2] <= lat /\ lat <= b[4]

\* the body of the forEach of _moveParticles for one particle; cell is the
\* draw of randomPosition, used if the particle is restarted.  The result
\* is the particle as the body left it and whether the body threw.
moveParticle(f, par, cell) ==
    LET o == randomPosition(f, cell[1], cell[2])
        p1 == IF par.age > maxAge
              THEN [par EXCEPT !.age = 0, !.x = Num(o[1]), !.y = Num(o[2])]
              ELSE par
        vector == valueAt(f, p1.x[2], p1.y[2])
    IN IF vector = TypeError THEN [par |-> p1, threw |-> TRUE]
       ELSE IF vector = Null
       THEN [par |-> [p1 EXCEPT !.age = maxAge + 1], threw |-> FALSE]
       ELSE LET xt == p1.x[2] + vector[2][2] * velocityScale
                yt == p1.y[2] + vector[3][2] * velocityScale
                has == hasValueAt(f, xt, yt)
            IN IF has = TypeError THEN [par |-> p1, threw |-> TRUE]
               ELSE IF has = Bool(TRUE)
               THEN [par |-> [p1 EXCEPT !.xt = Num(xt), !.yt = Num(yt),
                                        !.m = magnitude(vector),
                                        !.age = p1.age + 1],
                     threw |-> FALSE]
               ELSE [par |-> [p1 EXCEPT !.age = maxAge + 1], threw |-> FALSE]

\* _moveParticles from particle k on: an exception ends the forEach
RECURSIVE _moveParticles(_, _, _, _)
_moveParticles(f, pool, cells, k) ==
    IF k > Len(pool) THEN [paths |-> pool, threw |-> FALSE]
    ELSE LET r == moveParticle(f, pool[k], cells[k])
             pool2 == [pool EXCEPT ![k] = r.par]
         IN IF r.threw THEN [paths |-> pool2, threw |-> TRUE]
            ELSE _moveParticles(f, pool2, cells, k + 1)

\* what _drawParticle does to the particle
_drawParticle(b, par) ==
    IF boundsContains(b, par.x[2], par.y[2]) /\ par.age <= maxAge
    THEN [par EXCEPT !.x = par.xt, !.y = par.yt]
    ELSE par

_drawParticles(b, pool) == [k \in 1..Len(pool) |-> _drawParticle(b, pool[k])]

\* the line _drawParticle strokes for the particle, from source to target
\* with the magnitude for its style: <<x, y, xt, yt, m>>, or <<>> for none
strokeOf(b, par) ==
    IF boundsContains(b, par.x[2], par.y[2]) /\ par.age <= maxAge
    THEN <<par.x, par.y, par.xt, par.yt, par.m>>
    ELSE <<>>

NoStrokes(pool) == [k \in 1..Len(pool) |-> <<>>]

\* the VectorFields an animation runs on: with and without no-data cells,
\* filter and mask
AnimParams ==
    UNION { { Params(g, <<>>,
                     WithHoles(PaletteU(0, g.nRows * g.nCols), holes),
                     WithHoles(PaletteV(0, g.nRows * g.nCols), holes)) :
                holes \in HolePatterns(g.nRows * g.nCols) } :
            g \in Geometries }

AnimFields ==
    UNION { { setSpatialMask(setFilter(NewVectorField(p), fn), m) :
                fn \in VectorFilters \cup {"null"},
                m \in Masks(NewVectorField(p)) \cup {<<>>} } :
            p \in AnimParams }

\* map views: the whole world, the grid's first column
Viewports(f) ==
    LET e == extent(f)
    IN { <<Deg(-360), Deg(-90), Deg(360), Deg(90)>>,
         <<e[1], e[2], e[1] + f.cellXSize, e[4]>> }

\* onDrawLayer has prepared the particles and started the timer
AnimInit ==
    /\ field \in AnimFields
    /\ viewBounds \in Viewports(field)
    /\ paths \in _prepareParticlePaths(field)
    /\ moved = paths
    /\ thrown = FALSE
    /\ segments = NoStrokes(paths)
    /\ LayerConstructed
    /\ pc = "idle"
    /\ op = "onDrawLayer"
    /\ args = <<>>
    /\ result = Undefined
    /\ indexes = <<>>

\* the draws of randomPosition in a tick, one for each particle that is
\* restarted (the others draw nothing: their entry stays <<0, 0>>)
RandomDraws(f, pool) ==
    {cells \in [1..Len(pool) -> RandomCells(f)] :
       \A k \in 1..Len(pool) : pool[k].age <= maxAge => cells[k] = <<0, 0>>}

\* one call of the timer's callback: _moveParticles(); _drawParticles()
Tick ==
    /\ \E cells \in RandomDraws(field, paths) :
         \E mv \in {_moveParticles(field, paths, cells, 1)} :
            /\ moved' = mv.paths
            /\ thrown' = mv.threw
            /\ paths' = IF mv.threw THEN mv.paths
                        ELSE _drawParticles(viewBounds, mv.paths)
            /\ segments' = IF mv.threw THEN NoStrokes(mv.paths)
                           ELSE [k \in 1..Len(mv.paths) |->
                                   strokeOf(viewBounds, mv.paths[k])]
    /\ UNCHANGED <<field, viewBounds, pc, op, args, result, indexes>>
    /\ UNCHANGED layerVars

AnimNext == Tick

AnimSpec == AnimInit /\ [][AnimNext]_vars

(*********************** VectorFieldAnim: the layer ************************)

\* The layer is constructed with a VectorField, so this._field is set in
\* every state (field holds it).  Leaflet sets this._map when the layer is
\* added and clears it after onRemove; the handlers of getEvents and of
\* onLayerDidMount are registered while the layer is on the map; the map
\* fires move before every moveend.  The map's view is viewBounds.

\* the data the layer is constructed with and that setData loads
LayerParams ==
    Params(CHOOSE g \in Geometries : g.nCols = 2, <<>>, PaletteU(0, 4), PaletteV(0, 4))

\* this.timer, the timers d3 runs and the closures of their callbacks
TimerState == [timer |-> timer, running |-> running, closures |-> closures]

SetTimerState(ts) ==
    /\ timer' = ts.timer
    /\ running' = ts.running
    /\ closures' = ts.closures

\* _stopAnimation: stops this.timer, if there is one, and no other timer;
\* this.timer keeps the stopped timer
_stopAnimation(ts) ==
    [ts EXCEPT !.running = ts.running \ {ts.timer},
               !.closures = [t \in 1..MaxTimers |->
                               IF t = ts.timer THEN <<>> ELSE ts.closures[t]]]

\* onDrawLayer: nothing when the layer is hidden; else a new timer is
\* started on the particles of _prepareParticlePaths (pool) and assigned
\* to this.timer, whatever this.timer held
onDrawLayer(ts, visible, pool) ==
    IF ~visible
    THEN ts
    ELSE [timer |-> ts.timer + 1,
          running |-> ts.running \cup {ts.timer + 1},
          closures |-> [ts.closures EXCEPT ![ts.timer + 1] = pool]]

\* Math.random in the layer's events: within one call of onDrawLayer or of
\* a timer's callback every draw is the same, the lowest or the highest
\* value, which selects the grid's first or last cell
LayerCells(f) == {<<0, 0>>, <<f.nCols - 1, f.nRows - 1>>}

\* the pools onDrawLayer prepares with these draws
PreparedPaths ==
    IF _visible
    THEN {pool \in _prepareParticlePaths(field) :
            \E c \in LayerCells(field), age \in RandomAges :
              \A k \in 1..NumPaths : pool[k] = NewParticle(field, c[1], c[2], age)}
    ELSE {<<>>}

\* the draws of randomPosition in a tick of the layer's timers
LayerDraws(f, pool) ==
    {cells \in RandomDraws(f, pool) :
       \E c \in LayerCells(f) :
         \A k \in 1..Len(pool) : pool[k].age > maxAge => cells[k] = c}

\* L.CanvasLayer.Field.needRedraw and L.CanvasLayer.needRedraw: a frame is
\* requested when the layer is on a map and this._frame is not set
needRedraw(onMap) ==
    IF onMap /\ ~_frame
    THEN /\ queued < MaxQueued
         /\ _frame' = TRUE
         /\ queued' = queued + 1
    ELSE UNCHANGED <<_frame, queued>>

\* what the layer's events leave alone
FieldCallUnchanged == UNCHANGED <<pc, op, args, result, indexes, animVars>>

\* map.addLayer(layer): onAdd creates the canvas, onLayerDidMount registers
\* _stopAnimation for move and resize, needRedraw
AddTo ==
    /\ ~_map
    /\ _map' = TRUE
    /\ _canvas' = "visible"
    /\ needRedraw(TRUE)
    /\ UNCHANGED <<_visible, timer, running, closures, field>>
    /\ FieldCallUnchanged

\* map.removeLayer(layer): onLayerWillUnmount stops the animation, onRemove
\* drops the canvas; a requested frame stays requested
Remove ==
    /\ _map
    /\ SetTimerState(_stopAnimation(TimerState))
    /\ _canvas' = "none"
    /\ _map' = FALSE
    /\ UNCHANGED <<_frame, queued, _visible, field>>
    /\ FieldCallUnchanged

\* the browser runs a requested frame: drawLayer, which throws on
\* this._map.getSize() when the layer is no longer on a map and otherwise
\* calls onDrawLayer and clears this._frame
AnimFrame ==
    /\ queued > 0
    /\ queued' = queued - 1
    /\ IF _map
       THEN /\ _visible => timer < MaxTimers
            /\ \E pool \in PreparedPaths :
                 SetTimerState(onDrawLayer(TimerState, _visible, pool))
            /\ _frame' = FALSE
       ELSE UNCHANGED <<_frame, timer, running, closures>>
    /\ UNCHANGED <<_map, _canvas, _visible, field>>
    /\ FieldCallUnchanged

\* the map fires move or resize: _stopAnimation
MapMove ==
    /\ _map
    /\ SetTimerState(_stopAnimation(TimerState))
    /\ UNCHANGED <<_map, _canvas, _frame, queued, _visible, field>>
    /\ FieldCallUnchanged

\* the map fires move and then moveend: _stopAnimation, then
\* _onLayerDidMove calls drawLayer
MapMoveEnd ==
    /\ _map
    /\ _visible => timer < MaxTimers
    /\ \E pool \in PreparedPaths :
         SetTimerState(onDrawLayer(_stopAnimation(TimerState), _visible, pool))
    /\ _frame' = FALSE
    /\ UNCHANGED <<_map, _canvas, queued, _visible, field>>
    /\ FieldCallUnchanged

\* the map fires zoomstart: _hideCanvas hides the canvas and stops the
\* animation
ZoomStart ==
    /\ _map
    /\ _canvas' = "hidden"
    /\ SetTimerState(_stopAnimation(TimerState))
    /\ UNCHANGED <<_map, _frame, queued, _visible, field>>
    /\ FieldCallUnchanged

\* the map fires zoomend: _showCanvas
ZoomEnd ==
    /\ _map
    /\ _canvas' = IF _visible THEN "visible" ELSE _canvas
    /\ UNCHANGED <<_map, _frame, queued, _visible, timer, running, closures, field>>
    /\ FieldCallUnchanged

\* layer.hide()
Hide ==
    /\ _visible' = FALSE
    /\ _canvas' = IF _canvas # "none" THEN "hidden" ELSE _canvas
    /\ SetTimerState(_stopAnimation(TimerState))
    /\ UNCHANGED <<_map, _frame, queued, field>>
    /\ FieldCallUnchanged

\* layer.show(): the canvas is shown; nothing is drawn and no frame requested
Show ==
    /\ _visible' = TRUE
    /\ _canvas' = IF _canvas # "none" THEN "visible" ELSE _canvas
    /\ UNCHANGED <<_map, _frame, queued, timer, running, closures, field>>
    /\ FieldCallUnchanged

\* layer.setData(field), with the data of LayerParams: options.inFilter,
\* which is the filter of the field in place, is set on the new field
SetData ==
    /\ field' = IF field._inFilter # "null"
                THEN setFilter(NewVectorField(LayerParams), field._inFilter)
                ELSE NewVectorField(LayerParams)
    /\ needRedraw(_map)
    /\ UNCHANGED <<_map, _canvas, _visible, timer, running, closures>>
    /\ FieldCallUnchanged

\* layer.setFilter(f)
SetFilter ==
    /\ \E fn \in Filters(field) \cup {"null"} : field' = setFilter(field, fn)
    /\ needRedraw(_map)
    /\ UNCHANGED <<_map, _canvas, _visible, timer, running, closures>>
    /\ FieldCallUnchanged

\* d3 calls the callback of a timer that is running: _moveParticles and
\* _drawParticles on the particles of its closure, with the field the
\* layer holds now
TimerTick(t) ==
    /\ t \in running
    /\ \E cells \in LayerDraws(field, closures[t]) :
         \E mv \in {_moveParticles(field, closures[t], cells, 1)} :
            closures' = [closures EXCEPT
                           ![t] = IF mv.threw THEN mv.paths
                                  ELSE _drawParticles(viewBounds, mv.paths)]
    /\ UNCHANGED <<_map, _canvas, _frame, queued, _visible, timer, running, field>>
    /\ FieldCallUnchanged

\* the layer after new L.CanvasLayer.VectorFieldAnim(field), the map
\* showing the whole world
LayerInit ==
    /\ field = NewVectorField(LayerParams)
    /\ viewBounds = <<Deg(-360), Deg(-90), Deg(360), Deg(90)>>
    /\ paths = <<>>
    /\ moved = <<>>
    /\ thrown = FALSE
    /\ segments = <<>>
    /\ LayerConstructed
    /\ pc = "idle"
    /\ op = "new"
    /\ args = <<>>
    /\ result = Undefined
    /\ indexes = <<>>

LayerNext ==
    \/ AddTo
    \/ Remove
    \/ AnimFrame
    \/ MapMove
    \/ MapMoveEnd
    \/ ZoomStart
    \/ ZoomEnd
    \/ Hide
    \/ Show
    \/ SetData
    \/ SetFilter
    \/ \E t \in 1..MaxTimers : TimerTick(t)

LayerSpec == LayerInit /\ [][LayerNext]_vars

(******************************** claims ***********************************)

NoFilterNoMask == field._inFilter = "null" /\ field._spatialMask = <<>>

\* a value was returned: not null, not undefined, no error
IsValue(x) == x # Null /\ x # Undefined /\ x # TypeError

\* the 2x2 grid [[1, 2], [3, 4]] with corner (0, 0) and cell size 1
IsScenarioField ==
    /\ field.kind = "ScalarField"
    /\ field.nCols = 2 /\ field.nRows = 2
    /\ field.xllCorner = 0 /\ field.yllCorner = 0
    /\ field.cellXSize = Deg(1) /\ field.cellYSize = Deg(1)
    /\ field.zs = <<Num(1), Num(2), Num(3), Num(4)>>

\* the center coordinate of cell (i, j) as the claims write it
CenterLon(f, i) == f.xllCorner + i * f.cellXSize + f.cellXSize \div 2
CenterLat(f, j) == f.yurCorner - j * f.cellYSize - f.cellYSize \div 2

\* cell (i, j) and the cells around it hold values
NeighboursValid(f, i, j) ==
    \A di \in -1..1, dj \in -1..1 :
      (i + di \in 0..(f.nCols - 1) /\ j + dj \in 0..(f.nRows - 1))
      => _isValid(f.grid[j + dj + 1][i + di + 1])

\* C1: without filter and mask, interpolatedValueAt at the center of a cell
\* whose value and neighbours are valid returns what valueAt returns there.
C1_InterpolationExactAtCellCenter ==
    (pc = "returned" /\ op = "interpolatedValueAt" /\ NoFilterNoMask)
    => \A i \in 0..(field.nCols - 1), j \in 0..(field.nRows - 1) :
         (/\ args = <<CenterLon(field, i), CenterLat(field, j)>>
          /\ NeighboursValid(field, i, j))
         => result = valueAt(field, args[1], args[2])

\* C2: on the 2x2 grid [[1, 2], [3, 4]], interpolatedValueAt(1.0, 1.0)
\* returns 2.5.
C2_ScenarioCornerIsAverage ==
    (/\ pc = "returned" /\ op = "interpolatedValueAt" /\ NoFilterNoMask
     /\ IsScenarioField /\ args = <<Deg(1), Deg(1)>>)
    => result = Frac(5, 2)

\* the column and row C3 names for a coordinate
C3Column(f, lon) ==
    LET lon2 == IF f.xurCorner > Deg(180) /\ lon < f.xllCorner
                THEN lon + Deg(360) ELSE lon
        c == (lon2 - f.xllCorner) \div f.cellXSize
    IN IF c < 0 THEN 0 ELSE IF c > f.nCols - 1 THEN f.nCols - 1 ELSE c

C3Row(f, lat) ==
    LET r == (f.yurCorner - lat) \div f.cellYSize
    IN IF r < 0 THEN 0 ELSE IF r > f.nRows - 1 THEN f.nRows - 1 ELSE r

\* C3: without filter and mask, valueAt at a coordinate inside the extent
\* returns the stored value of the nearest cell, grid[r][c]; on the 2x2 grid
\* [[1, 2], [3, 4]], valueAt(0.5, 1.5) = 1.
C3_ValueAtIsNearestCell ==
    (pc = "returned" /\ op = "valueAt" /\ NoFilterNoMask)
    => /\ _pointInExtent(field, args[1], args[2])
          => result = field.grid[C3Row(field, args[2]) + 1][C3Column(field, args[1]) + 1]
       /\ (IsScenarioField /\ args = <<1, 3>>) => result = Num(1)

\* C3 witness: a wrapped longitude west of the stored corner is looked up and
\* a stored value comes back
C3_Witness ==
    /\ pc = "returned" /\ op = "valueAt" /\ NoFilterNoMask
    /\ field.longitudeNeedsToBeWrapped /\ args[1] < field.xllCorner
    /\ _pointInExtent(field, args[1], args[2])
    /\ IsValue(result)

\* C4: hasValueAt is true exactly when valueAt returns a value, and
\* notHasValueAt is its negation, whatever the filter and the mask.
C4_HasValueAtIffValueAtValid ==
    /\ (pc = "returned" /\ op = "hasValueAt")
       => (result = Bool(TRUE) <=> IsValue(valueAt(field, args[1], args[2])))
    /\ (pc = "returned" /\ op = "notHasValueAt")
       => /\ result = Bool(TRUE) <=> hasValueAt(field, args[1], args[2]) = Bool(FALSE)
          /\ result = Bool(FALSE) <=> hasValueAt(field, args[1], args[2]) = Bool(TRUE)

\* C4 witness: hasValueAt is false inside the field because the filter
\* excludes the value stored in the nearest cell
C4_Witness ==
    /\ pc = "returned" /\ op = "hasValueAt" /\ result = Bool(FALSE)
    /\ field._inFilter # "null"
    /\ contains(field, args[1], args[2])
    /\ LET cij == NearestIndexes(field, args[1], args[2])
       IN _isValid(_valueAtIndexes(field, cij[1], cij[2]))

\* the decimal index lies outside [0, n - 1]
OutOfRange(x, n) == NumLt(x, Num(0)) \/ NumLt(Num(n - 1), x)

AllCellsValid(f) ==
    \A j \in 1..f.nRows, i \in 1..f.nCols : _isValid(f.grid[j][i])

\* C5: for decimal indexes outside the grid, valueAt's lookup and
\* interpolatedValueAtIndexes use in-range indexes only, raise no error and
\* return a boundary value (not invalid) when the cells hold valid data.
C5_ClampingIsUniform ==
    /\ (pc = "returned" /\ op = "valueAt" /\ indexes # <<>>)
       => /\ indexes[1] \in 0..(field.nCols - 1)
          /\ indexes[2] \in 0..(field.nRows - 1)
    /\ (/\ pc = "returned" /\ op = "interpolatedValueAtIndexes"
        /\ (OutOfRange(args[1], field.nCols) \/ OutOfRange(args[2], field.nRows)))
       => /\ indexes[1] \in 0..(field.nCols - 1)
          /\ indexes[2] \in 0..(field.nCols - 1)
          /\ indexes[3] \in 0..(field.nRows - 1)
          /\ indexes[4] \in 0..(field.nRows - 1)
          /\ result # TypeError
          /\ AllCellsValid(field) => result # Null

\* C6: valueAt and interpolatedValueAt return invalid for every coordinate
\* outside the wrap-corrected bounding extent, whatever the filter and mask.
C6_OutsideExtentIsInvalid ==
    (/\ pc = "returned" /\ op \in {"valueAt", "interpolatedValueAt"}
     /\ ~_pointInExtent(field, args[1], args[2]))
    => result = Null

\* C7: valueAt, hasValueAt and interpolatedValueAt never raise an exception;
\* outside the field they return null, or false for hasValueAt.
C7_QueriesNeverThrow ==
    (pc = "returned" /\ op \in {"valueAt", "hasValueAt", "interpolatedValueAt"})
    => /\ result # TypeError
       /\ notContains(field, args[1], args[2])
          => result = IF op = "hasValueAt" THEN Bool(FALSE) ELSE Null

\* C8: no field exists whose source array length differs from nRows*nCols
\* (for vectors, whose us and vs lengths differ): construction failed instead.
C8_ConstructionRejectsLengthMismatch ==
    IF field.kind = "ScalarField"
    THEN Len(field.zs) = numCells(field)
    ELSE Len(field.us) = numCells(field) /\ Len(field.vs) = Len(field.us)

\* the quantity the range is taken over: the scalar, or the vector's magnitude
Measure(f, v) == IF f.kind = "ScalarField" THEN v ELSE magnitude(v)

\* the measures of the grid's valid values that pass the current filter
PassingMeasures(f) ==
    { Measure(f, f.grid[j][i]) :
        <<j, i>> \in { c \in (1..f.nRows) \X (1..f.nCols) :
                         /\ _isValid(f.grid[c[1]][c[2]])
                         /\ f._inFilter # "null"
                            => CallFilter(f._inFilter, f.grid[c[1]][c[2]]) = Bool(TRUE) } }

IsMin(m, S) == m \in S /\ \A x \in S : NumLe(m, x)
IsMax(m, S) == m \in S /\ \A x \in S : NumLe(x, m)

\* C9: the range is [min, max] over exactly the grid's valid values that
\* pass the current filter (magnitudes for a VectorField); with the filter
\* that rejects negative values, range[0] >= 0.
C9_RangeOverFilteredGridValues ==
    /\ PassingMeasures(field) # {}
       => /\ IsMin(field.range[1], PassingMeasures(field))
          /\ IsMax(field.range[2], PassingMeasures(field))
    /\ field._inFilter = "nonNegative"
       => IsNum(field.range[1]) /\ NumLe(Num(0), field.range[1])

\* C10 as claimed: a ScalarField's range is a pair of numbers with
\* range[0] <= range[1].
C10_RangeIsOrderedPair ==
    field.kind = "ScalarField"
    => /\ IsNum(field.range[1]) /\ IsNum(field.range[2])
       /\ NumLe(field.range[1], field.range[2])

\* some valid entry of the source array passes the current filter
SomeSourceValuePasses(f) ==
    \E k \in 1..Len(f.zs) :
      /\ _isValid(f.zs[k])
      /\ f._inFilter # "null" => CallFilter(f._inFilter, f.zs[k]) = Bool(TRUE)

\* C10 amended: a ScalarField's range is a pair of numbers with
\* range[0] <= range[1] whenever a valid source value passes the current
\* filter, and [undefined, undefined] otherwise.
C10_RangeIsOrderedPairOrUndefined ==
    field.kind = "ScalarField"
    => IF SomeSourceValuePasses(field)
       THEN /\ IsNum(field.range[1]) /\ IsNum(field.range[2])
            /\ NumLe(field.range[1], field.range[2])
       ELSE field.range = <<Undefined, Undefined>>

\* C10 witness: setFilter has recomputed the range of a masked ScalarField to
\* a proper interval
C10_Witness ==
    /\ pc = "returned" /\ op = "setFilter"
    /\ field.kind = "ScalarField"
    /\ field._inFilter = "positive" /\ field._spatialMask # <<>>
    /\ IsNum(field.range[1]) /\ NumLt(field.range[1], field.range[2])

\* C12: without a spatial mask, every position randomPosition returns is the
\* center of a cell of the grid and is contained in the field.
C12_RandomPositionIsContainedCellCenter ==
    (op = "randomPosition" /\ field._spatialMask = <<>>)
    => /\ \E i \in 0..(field.nCols - 1), j \in 0..(field.nRows - 1) :
            <<result[2], result[3]>> = _lonLatAtIndexes(field, i, j)
       /\ contains(field, result[2], result[3])

\* the longitude bounds the claims give for the three kinds of geometry
C13Longitudes(f) ==
    IF f.xurCorner <= Deg(180) THEN <<f.xllCorner, f.xurCorner>>
    ELSE IF f.xurCorner - f.xllCorner >= Deg(360) THEN <<Deg(-180), Deg(180)>>
    ELSE <<f.xllCorner - Deg(360), f.xurCorner - Deg(360)>>

C14_WrappedBoundsWithin180 ==
    (op = "extent" /\ field.xurCorner > Deg(180) /\ field.xllCorner >= 0)
    => /\ Deg(-180) <= result[2]
       /\ result[2] <= result[4]
       /\ result[4] <= Deg(180)

\* the quantity of a Vector that getScalarField(type) asks for
C15Quantity(type, vec) ==
    CASE type = "magnitude" -> magnitude(vec)
      [] type = "directionTo" -> directionTo(vec)
      [] type = "directionFrom" -> directionFrom(vec)

\* C15: getScalarField(type) returns a new ScalarField of the same geometry
\* whose cell (i, j) is invalid exactly when the source's is, and otherwise
\* holds the quantity of the source's Vector; the VectorField is unchanged.
C15_DerivedFieldMirrorsSource ==
    [][op' = "getScalarField"
       => /\ field' = field
          /\ LET derived == result'[2]
             IN /\ derived.kind = "ScalarField"
                /\ derived.nCols = field.nCols /\ derived.nRows = field.nRows
                /\ derived.xllCorner = field.xllCorner
                /\ derived.yllCorner = field.yllCorner
                /\ derived.cellXSize = field.cellXSize
                /\ derived.cellYSize = field.cellYSize
                /\ Len(derived.grid) = field.nRows
                /\ \A j \in 1..field.nRows :
                     /\ Len(derived.grid[j]) = field.nCols
                     /\ \A i \in 1..field.nCols :
                          IF field.grid[j][i] = Null
                          THEN derived.grid[j][i] = Null
                          ELSE derived.grid[j][i] =
                                 C15Quantity(args'[1], field.grid[j][i])]_vars

C15_Witness ==
    /\ op = "getScalarField"
    /\ args = <<"directionFrom">>
    /\ \E j \in 1..field.nRows, i \in 1..field.nCols :
         field.grid[j][i] = Null /\ result[2].grid[j][i] = Null
    /\ \E j \in 1..field.nRows, i \in 1..field.nCols :
         field.grid[j][i] # Null /\ IsNum(result[2].grid[j][i])

\* C16: getCells(stride) always returns, and for stride >= 1 returns the
\* cells of rows 0, stride, ... and columns 0, stride, ..., rows outer and
\* columns inner, each with its center, value grid[j][i] and the cell sizes.
C16_GetCellsTerminatesAndEnumerates ==
    op = "getCells"
    => /\ pc = "returned"
       /\ args[1] >= 1
          => LET stride == args[1]
                 cells == result[2]
                 rows == {j \in 0..(field.nRows - 1) : j % stride = 0}
                 cols == {i \in 0..(field.nCols - 1) : i % stride = 0}
             IN /\ Len(cells) = Cardinality(rows) * Cardinality(cols)
                /\ \A j \in rows, i \in cols :
                     cells[(j \div stride) * Cardinality(cols) + (i \div stride) + 1]
                       = [center |-> <<_latitudeAtY(field, j), _longitudeAtX(field, i)>>,
                          value |-> field.grid[j + 1][i + 1],
                          xSize |-> field.cellXSize,
                          ySize |-> field.cellYSize]

\* the attributes no operation may change
C17Data(f) ==
    <<f.kind, f.grid, f.zs, f.us, f.vs, f.nCols, f.nRows, f.xllCorner,
      f.yllCorner, f.xurCorner, f.yurCorner, f.cellXSize, f.cellYSize,
      f.isContinuous, f.longitudeNeedsToBeWrapped>>

\* C17: no operation changes the grid, the source arrays or the geometry;
\* setFilter changes only the filter and the range, setSpatialMask only the
\* mask, and every other operation changes nothing of the field.
C17_OperationsKeepGridAndGeometry ==
    [][/\ C17Data(field') = C17Data(field)
       /\ op' = "setFilter" => field'._spatialMask = field._spatialMask
       /\ op' = "setSpatialMask"
          => field'._inFilter = field._inFilter /\ field'.range = field.range
       /\ op' \notin {"setFilter", "setSpatialMask"} => field' = field]_vars

C17_Witness ==
    /\ op = "setSpatialMask"
    /\ field._spatialMask # <<>>
    /\ field._inFilter # "null"
    /\ field.range # <<Undefined, Undefined>>
    /\ \E j \in 1..field.nRows, i \in 1..field.nCols : field.grid[j][i] = Null

\* C18: for (u, v) other than (0, 0), directionTo() and directionFrom() lie
\* in [0, 360) and directionFrom() is (directionTo() + 180) mod 360.
C18_DirectionsInRangeAndOpposite ==
    (op \in {"directionTo", "directionFrom"} /\ args # <<Num(0), Num(0)>>)
    => /\ NumLe(Num(0), result)
       /\ NumLt(result, Num(360))
       /\ op = "directionFrom"
          => result = NumMod(NumAdd(directionTo(Vector(args[1], args[2])),
                                    Num(180)), Num(360))

\* the field has a valid value at the position <<x, y>>
HasValue(f, x, y) == hasValueAt(f, x[2], y[2]) = Bool(TRUE)

\* the candidate next position of a particle at a position with a vector
Candidate(f, par) ==
    LET vector == valueAt(f, par.x[2], par.y[2])
    IN <<Num(par.x[2] + vector[2][2] * velocityScale),
         Num(par.y[2] + vector[3][2] * velocityScale)>>

\* the field has no valid value at the particle's position or at its
\* candidate next position
NoValidSample(f, par) ==
    \/ ~HasValue(f, par.x, par.y)
    \/ ~HasValue(f, Candidate(f, par)[1], Candidate(f, par)[2])

\* C11: a particle whose age is above maxAge when a tick ends is restarted
\* by the next tick, so that its age is not above maxAge when that tick ends:
\* no age stays above maxAge across two consecutive tick ends.
C11_ExpiryIsFollowedByRespawn ==
    [][\A k \in 1..Len(paths) :
         paths[k].age > maxAge => paths'[k].age <= maxAge]_vars

\* C19: a particle whose age is above maxAge when a tick starts is restarted
\* and the rest of the tick is skipped for it: after _moveParticles its age
\* is 0 and its xt, yt and magnitude are as before.
C19_RespawnSkipsTheAdvance ==
    [][~thrown'
       => \A k \in 1..Len(paths) :
            paths[k].age > maxAge
            => /\ moved'[k].age = 0
               /\ moved'[k].xt = paths[k].xt
               /\ moved'[k].yt = paths[k].yt
               /\ moved'[k].m = paths[k].m]_vars

\* C20: a particle (not restarted in the tick) for which the field has no
\* valid value at its position or at its candidate next position has age
\* maxAge as a result of the tick, and its x, y, xt, yt and magnitude are
\* left as they were.
C20_InvalidSampleMarksExpiring ==
    [][~thrown'
       => \A k \in 1..Len(paths) :
            (paths[k].age <= maxAge /\ NoValidSample(field, paths[k]))
            => /\ paths'[k].age = maxAge
               /\ paths'[k] = [paths[k] EXCEPT !.age = maxAge]
               /\ moved'[k] = paths'[k]]_vars

\* the particle has a valid vector at its position and a valid value at its
\* candidate next position
ValidSample(f, par) ==
    /\ HasValue(f, par.x, par.y)
    /\ HasValue(f, Candidate(f, par)[1], Candidate(f, par)[2])

\* the particle after the move the claims describe: xt, yt and magnitude
\* committed, age one more, x and y as they were
C21Advanced(f, par) ==
    [par EXCEPT !.xt = Candidate(f, par)[1],
                !.yt = Candidate(f, par)[2],
                !.m = magnitude(valueAt(f, par.x[2], par.y[2])),
                !.age = par.age + 1]

\* C21: in a tick, a particle with age <= maxAge, a valid vector (u, v) at
\* its position and a valid value at its candidate next position gets
\* xt = x + u*velocityScale, yt = y + v*velocityScale, the magnitude of (u, v)
\* and age + 1 from the move step, which leaves x and y.
C21_ValidSampleAdvances ==
    [][\A k \in 1..Len(paths) :
         (paths[k].age <= maxAge /\ ValidSample(field, paths[k]))
         => moved'[k] = C21Advanced(field, paths[k])]_vars

\* C21 in the ticks that run to their end
C21_ValidSampleAdvancesUnlessThrown ==
    [][~thrown'
       => \A k \in 1..Len(paths) :
            (paths[k].age <= maxAge /\ ValidSample(field, paths[k]))
            => moved'[k] = C21Advanced(field, paths[k])]_vars

\* C22: the position of a created or restarted particle is one where the
\* field has a valid value.
C22_DrawnPositionsAreValid ==
    /\ \A k \in 1..Len(paths) : HasValue(field, paths[k].x, paths[k].y)
    /\ [][\A k \in 1..Len(paths) :
            (paths[k].age > maxAge /\ ~thrown')
            => \E c \in RandomCells(field) :
                 /\ moved'[k].x = Num(randomPosition(field, c[1], c[2])[1])
                 /\ moved'[k].y = Num(randomPosition(field, c[1], c[2])[2])
                 /\ HasValue(field, moved'[k].x, moved'[k].y)]_vars

\* what the claims say the emission step does to particle k of the pool the
\* move step left: a segment exactly when the position is in the viewport
\* and age <= maxAge, the position advanced exactly then, nothing else changed
C23Emission(b, par, after, stroke) ==
    IF boundsContains(b, par.x[2], par.y[2]) /\ par.age <= maxAge
    THEN /\ stroke = <<par.x, par.y, par.xt, par.yt, par.m>>
         /\ after = [par EXCEPT !.x = par.xt, !.y = par.yt]
    ELSE /\ stroke = <<>>
         /\ after = par

\* C23: in each tick a segment (x, y) -> (xt, yt) is emitted for a particle
\* exactly when its position is inside the viewport and its age <= maxAge;
\* its position is advanced to (xt, yt) exactly then, and the emission
\* changes nothing else.
C23_SegmentsAndAdvance ==
    [][\A k \in 1..Len(paths) :
         C23Emission(viewBounds, moved'[k], paths'[k], segments'[k])]_vars

\* C23 in the ticks that run to their end
C23_SegmentsAndAdvanceUnlessThrown ==
    [][~thrown'
       => \A k \in 1..Len(paths) :
            C23Emission(viewBounds, moved'[k], paths'[k], segments'[k])]_vars

\* C24: at every tick boundary each particle's age is >= 0, and a particle
\* with age <= maxAge has a valid value at (x, y) and at (xt, yt).
C24_AliveParticlesHaveValidPositions ==
    \A k \in 1..Len(paths) :
      /\ paths[k].age >= 0
      /\ paths[k].age <= maxAge
         => /\ HasValue(field, paths[k].x, paths[k].y)
            /\ IsNum(paths[k].xt) /\ IsNum(paths[k].yt)
            /\ HasValue(field, paths[k].xt, paths[k].yt)

\* the value the grid holds at column i of row j (undefined outside the grid)
GridValue(f, i, j) == At(At(f.grid, j), i)

\* g00*(1-x)*(1-y) + g10*x*(1-y) + g01*(1-x)*y + g11*x*y on numbers
Blend(x, y, g00, g10, g01, g11) ==
    NumAdd(NumAdd(NumAdd(NumMul(g00, NumMul(NumSub(Num(1), x), NumSub(Num(1), y))),
                         NumMul(g10, NumMul(x, NumSub(Num(1), y)))),
                  NumMul(g01, NumMul(NumSub(Num(1), x), y))),
           NumMul(g11, NumMul(x, y)))

\* the blend of four grid values, component by component for vectors
BlendOf(f, x, y, g00, g10, g01, g11) ==
    IF f.kind = "ScalarField"
    THEN Blend(x, y, g00, g10, g01, g11)
    ELSE Vector(Blend(x, y, g00[2], g10[2], g01[2], g11[2]),
                Blend(x, y, g00[3], g10[3], g01[3], g11[3]))

C25Case == pc = "returned" /\ op = "interpolatedValueAtIndexes"

\* the four surrounding grid values of the recorded call
C25Values ==
    <<GridValue(field, indexes[1], indexes[3]),
      GridValue(field, indexes[2], indexes[3]),
      GridValue(field, indexes[1], indexes[4]),
      GridValue(field, indexes[2], indexes[4])>>

\* C25: interpolatedValueAtIndexes(i, j) returns null when one of the four
\* grid values at (fi, fj), (ci, fj), (fi, cj), (ci, cj) is invalid, and
\* otherwise exactly g00*(1-x)*(1-y) + g10*x*(1-y) + g01*(1-x)*y + g11*x*y
\* with x = i - fi and y = j - fj, per component for vectors.
C25_InterpolationNeedsFourValues ==
    C25Case
    => /\ indexes[1] = Floor(args[1])
       /\ IF \E k \in 1..4 : ~_isValid(C25Values[k])
          THEN result = Null
          ELSE result = BlendOf(field, NumSub(args[1], Num(indexes[1])),
                                NumSub(args[2], Num(indexes[3])),
                                C25Values[1], C25Values[2],
                                C25Values[3], C25Values[4])

\* a blend strictly inside a cell whose four corners hold distinct values
C25_Witness ==
    /\ C25Case
    /\ \A k \in 1..4 : _isValid(C25Values[k])
    /\ Cardinality({C25Values[k] : k \in 1..4}) = 4
    /\ args[1] # Num(Floor(args[1]))
    /\ args[2] # Num(Floor(args[2]))
    /\ indexes[3] = Floor(args[2])
    /\ result # Null

\* a returned interpolation whose left column is the grid's last one
C26Case ==
    /\ pc = "returned"
    /\ op \in {"interpolatedValueAt", "interpolatedValueAtIndexes"}
    /\ indexes # <<>>
    /\ indexes[1] = field.nCols - 1

\* the decimal indexes of the recorded interpolation
C26Decimal ==
    IF op = "interpolatedValueAt"
    THEN _getDecimalIndexes(field, args[1], args[2])
    ELSE args

\* the values of columns nCols-1 and 0 in rows fj and cj
C26Values ==
    <<GridValue(field, field.nCols - 1, indexes[3]),
      GridValue(field, 0, indexes[3]),
      GridValue(field, field.nCols - 1, indexes[4]),
      GridValue(field, 0, indexes[4])>>

\* C26: when floor(i) = nCols-1, a continuous field takes column 0 as the
\* right-hand column ci and blends column nCols-1 with weight 1-x and column
\* 0 with weight x; a field that is not continuous clamps ci to nCols-1.
C26_ContinuousFieldWrapsRightColumn ==
    C26Case
    => IF field.xurCorner - field.xllCorner >= Deg(360)
       THEN /\ indexes[2] = 0
            /\ (\A k \in 1..4 : _isValid(C26Values[k]))
               => result = BlendOf(field,
                                   NumSub(C26Decimal[1], Num(field.nCols - 1)),
                                   NumSub(C26Decimal[2], Num(indexes[3])),
                                   C26Values[1], C26Values[2],
                                   C26Values[3], C26Values[4])
       ELSE indexes[2] = field.nCols - 1

\* halfway between the last column and column 0 of a continuous field that
\* holds different values in the two
C26_Witness ==
    /\ C26Case
    /\ op = "interpolatedValueAtIndexes"
    /\ field.isContinuous
    /\ args[1] = Frac(2 * field.nCols - 1, 2)
    /\ \A k \in 1..4 : _isValid(C26Values[k])
    /\ C26Values[1] # C26Values[2]
    /\ result \notin {Null, C26Values[1], C26Values[2]}

\* the same through interpolatedValueAt, at a longitude of the last column
C26_WitnessLonLat ==
    /\ C26Case
    /\ op = "interpolatedValueAt"
    /\ field.isContinuous
    /\ result # Null

\* the clamp on a field that is not continuous
C26_WitnessClamped ==
    /\ C26Case
    /\ ~field.isContinuous
    /\ result # Null

\* a source value that is there: neither null nor beyond the array's end
Present(z) == z # Null /\ z # Undefined

\* what the claim says the grid holds at column i of row j (from 0)
C27Entry(f, i, j) ==
    IF f.kind = "ScalarField"
    THEN LET z == At(f.zs, j * f.nCols + i)
         IN IF Present(z) THEN z ELSE Null
    ELSE LET u == At(f.us, j * f.nCols + i)
             v == At(f.vs, j * f.nCols + i)
         IN IF Present(u) /\ Present(v) THEN <<"vec", u, v>> ELSE Null

\* C27: the grid has nRows rows of nCols entries; a ScalarField's grid[j][i]
\* is zs[j*nCols + i] when that value is present and null otherwise; a
\* VectorField's is the Vector of us[j*nCols + i] and vs[j*nCols + i] when
\* both are present and null otherwise; 0 and (0, 0) are stored as values.
C27_GridHoldsSourceValues ==
    /\ Len(field.grid) = field.nRows
    /\ \A j \in 0..(field.nRows - 1) :
         /\ Len(field.grid[j + 1]) = field.nCols
         /\ \A i \in 0..(field.nCols - 1) :
              /\ field.grid[j + 1][i + 1] = C27Entry(field, i, j)
              /\ (field.kind = "ScalarField"
                  /\ At(field.zs, j * field.nCols + i) = Num(0))
                 => field.grid[j + 1][i + 1] = Num(0)
              /\ (field.kind = "VectorField"
                  /\ At(field.us, j * field.nCols + i) = Num(0)
                  /\ At(field.vs, j * field.nCols + i) = Num(0))
                 => field.grid[j + 1][i + 1] = <<"vec", Num(0), Num(0)>>

\* a scalar grid built from an array with a 0 and a null in it
C27_Witness ==
    /\ field.kind = "ScalarField"
    /\ Len(field.zs) = field.nRows * field.nCols
    /\ \E p, q \in 1..Len(field.zs) :
         /\ field.zs[p] = Num(0)
         /\ field.zs[q] = Null
         /\ field.grid[((p - 1) \div field.nCols) + 1][((p - 1) % field.nCols) + 1]
              = Num(0)
         /\ field.grid[((q - 1) \div field.nCols) + 1][((q - 1) % field.nCols) + 1]
              = Null

\* a vector grid with a (0, 0) vector, a cell whose v alone is missing, and
\* source arrays of different lengths
C27_WitnessVector ==
    /\ field.kind = "VectorField"
    /\ \E j \in 1..field.nRows, i \in 1..field.nCols :
         field.grid[j][i] = <<"vec", Num(0), Num(0)>>
    /\ \E p \in 1..Len(field.us) :
         /\ p <= field.nRows * field.nCols
         /\ field.us[p] # Null
         /\ At(field.vs, p - 1) \in {Null, Undefined}

\* the center of cell (i, j) is in the field and valueAt there is grid[j][i]
C28RoundTrip(f, i, j) ==
    LET lonLat == _lonLatAtIndexes(f, i, j)
    IN /\ contains(f, lonLat[1], lonLat[2])
       /\ valueAt(f, lonLat[1], lonLat[2]) = GridValue(f, i, j)

\* C28: on a field with no filter and no spatial mask, for every grid index
\* (i, j) the cell center _lonLatAtIndexes(i, j) is contained in the field
\* and valueAt at that coordinate returns grid[j][i].
C28_CellCenterRoundTrip ==
    NoFilterNoMask
    => \A i \in 0..(field.nCols - 1), j \in 0..(field.nRows - 1) :
         C28RoundTrip(field, i, j)

\* C28 on the fields that are continuous or whose xurCorner does not exceed
\* 180
C28_CellCenterRoundTripUnlessPartlyWrapped ==
    (NoFilterNoMask /\ (field.isContinuous \/ ~field.longitudeNeedsToBeWrapped))
    => \A i \in 0..(field.nCols - 1), j \in 0..(field.nRows - 1) :
         C28RoundTrip(field, i, j)

\* the filter settings of a field, no filter among them
FilterSettings(f) == Filters(f) \cup {"null"}

\* the recorded interpolation under the filter setting fn
C29Under(fn) ==
    IF op = "interpolatedValueAt"
    THEN interpolatedValueAt(setFilter(field, fn), args[1], args[2])
    ELSE interpolatedValueAtIndexes(setFilter(field, fn), args[1], args[2])

C29Case ==
    /\ pc = "returned"
    /\ op \in {"interpolatedValueAt", "interpolatedValueAtIndexes"}

\* C29: interpolatedValueAt and interpolatedValueAtIndexes return the same
\* result under every filter setting of the same field and mask.
C29_InterpolationIgnoresFilter ==
    C29Case => \A fn \in FilterSettings(field) : C29Under(fn) = result

\* an interpolated value where valueAt returns null because the active filter
\* excludes the nearest cell
C29_Witness ==
    /\ C29Case
    /\ op = "interpolatedValueAt"
    /\ field._inFilter # "null"
    /\ IsValue(result)
    /\ valueAt(field, args[1], args[2]) = Null
    /\ IsValue(valueAt(setFilter(field, "null"), args[1], args[2]))

\* _stopAnimation has stopped this.timer and onDrawLayer has started no
\* timer since
AnimationStopped == timer # 0 /\ timer \notin running

\* at most one animation timer is running
C30_AtMostOneTimerRunning == Cardinality(running) <= 1

\* no timer's callback runs while the animation is stopped
C30_NoTickAfterStop ==
    [][AnimationStopped => \A t \in 1..MaxTimers : ~TimerTick(t)]_vars

\* C30: under every interleaving of the layer's events at most one animation
\* timer is running at any time, and after _stopAnimation no callback of a
\* timer started by an earlier onDrawLayer runs until the next onDrawLayer.
C30_OneTimerAndNoTickAfterStop ==
    [][/\ Cardinality(running') <= 1
       /\ AnimationStopped => \A t \in 1..MaxTimers : ~TimerTick(t)]_vars
====
